---- MODULE Spec2Model ----
(***************************************************************************)
(* SourcedDependencyGroups::from_virtual_project and validate_sources of   *)
(* crates/uv-distribution/src/metadata/dependency_groups.rs.               *)
(*                                                                         *)
(* One call of from_virtual_project on a discovered project is a staged    *)
(* computation: flatten `dependency-groups`, add the legacy `dev` group,   *)
(* validate the group-scoped sources, lower the groups in key order.       *)
(* The manifest (raw groups, tool.uv.dev-dependencies, tool.uv.sources),   *)
(* the source strategy and the outcome of the lowering collaborator are    *)
(* the inputs; they are fixed by the initial state.                        *)
(*                                                                         *)
(* FlatDependencyGroups::from_dependency_groups and                        *)
(* LoweredRequirement::from_requirement live in other crates; they are     *)
(* modelled from their description in spec.md (sections 4.1 and 4.4).      *)
(*                                                                         *)
(* The initial state is the state after VirtualProject::discover_defaulted *)
(* (line 42) has succeeded.  The project name, the indexes, the index      *)
(* locations and the workspace are passed through to from_requirement and  *)
(* to the result unread, and are left out; so is the context that          *)
(* with_dev_dependencies (line 92) adds to a flattening error.             *)
(***************************************************************************)
EXTENDS Integers, Sequences, FiniteSets, TLC

VARIABLES
    dependency_groups_raw,  \* pyproject_toml().dependency_groups : GroupName -> entries
    dev_dependencies,       \* tool.uv.dev_dependencies : Option<Vec<requirement>>
    tool_sources,           \* tool.uv.sources : PackageName -> Sources
    source_strategy,        \* SourceStrategy::Enabled | SourceStrategy::Disabled
    lowering_errors,        \* (group, package) pairs on which from_requirement returns Err
    pc,                     \* position in from_virtual_project
    flattened,              \* the FlatDependencyGroups bound at line 90
    dependency_groups,      \* the FlatDependencyGroups bound at line 72 (after the dev merge)
    lowered,                \* entries of the output BTreeMap collected so far (line 150)
    calls,                  \* the from_requirement calls made so far, in order
    result                  \* what from_virtual_project returned

vars == <<dependency_groups_raw, dev_dependencies, tool_sources, source_strategy,
          lowering_errors, pc, flattened, dependency_groups, lowered, calls, result>>

inputs == <<dependency_groups_raw, dev_dependencies, tool_sources, source_strategy,
            lowering_errors>>

(***************************************************************************)
(* Bounds of the model.                                                    *)
(***************************************************************************)
MaxEntries == 3     \* entries of all raw groups together (flattening inputs)
MaxCtxEntries == 2  \* entries of all raw groups together (other inputs)
MaxDev == 2         \* length of tool.uv.dev-dependencies
MaxSources == 2     \* source entries of tool.uv.sources, all packages together
MaxErrors == 2      \* (group, package) pairs on which lowering fails

(***************************************************************************)
(* Names.  GroupName and PackageName are ordered (BTreeMap keys); the      *)
(* order of the names used here is that of the strings.                    *)
(***************************************************************************)
DEV_DEPENDENCIES == "dev"
GroupOrder == <<"dev", "docs", "test">>
PackageOrder == <<"a", "b">>
GroupNames == {GroupOrder[i] : i \in DOMAIN GroupOrder}
PackageNames == {PackageOrder[i] : i \in DOMAIN PackageOrder}
ExtraNames == {"cli"}

Rank(order, x) == CHOOSE i \in DOMAIN order : order[i] = x

\* The keys of a map in BTreeMap iteration order.
RECURSIVE SortedFrom(_, _, _)
SortedFrom(order, keys, i) ==
    IF i > Len(order) THEN <<>>
    ELSE (IF order[i] \in keys THEN <<order[i]>> ELSE <<>>) \o SortedFrom(order, keys, i + 1)

SortedKeys(order, map) == SortedFrom(order, DOMAIN map, 1)

EmptyMap == <<>>

Range(s) == {s[i] : i \in DOMAIN s}

(***************************************************************************)
(* Data.  A requirement is a package name and the rest of its declaration  *)
(* (ver); two requirements of one package differ in ver.                   *)
(***************************************************************************)
Req(n, v) == [name |-> n, ver |-> v]
Requirements == {Req("a", 1), Req("a", 2), Req("b", 1)}

RequirementEntry(r) == [kind |-> "requirement", req |-> r]
IncludeGroup(g) == [kind |-> "include-group", group |-> g]

None == [some |-> FALSE, value |-> <<>>]
Some(v) == [some |-> TRUE, value |-> v]

\* A source of tool.uv.sources; group() is Some(g) exactly for a group scope.
Unscoped == [scope |-> "unscoped", target |-> ""]
ExtraScope(e) == [scope |-> "extra", target |-> e]
GroupScope(g) == [scope |-> "group", target |-> g]
SourceScopes ==
    {Unscoped} \cup {ExtraScope(e) : e \in ExtraNames} \cup {GroupScope(g) : g \in GroupNames}

Ok(v) == [tag |-> "Ok", value |-> v, err |-> <<>>]
Err(e) == [tag |-> "Err", value |-> <<>>, err |-> e]
Pending == [tag |-> "Pending", value |-> <<>>, err |-> <<>>]

CyclicGroupInclusion(g) == <<"CyclicGroupInclusion", g>>
UnknownGroupReference(referrer, g) == <<"UnknownGroupReference", referrer, g>>
MissingSourceGroup(p, g) == <<"MissingSourceGroup", p, g>>
IncompleteSourceGroup(p, g) == <<"IncompleteSourceGroup", p, g>>
GroupLoweringError(g, p) == <<"GroupLoweringError", g, p>>

(***************************************************************************)
(* FlatDependencyGroups::from_dependency_groups (crate uv-workspace).      *)
(* Depth-first expansion of each group; `parents` is the stack of groups   *)
(* being expanded.  An include of an undeclared group is an                *)
(* UnknownGroupReference naming the referrer; an include of a group on the *)
(* stack is a CyclicGroupInclusion naming the group revisited.  An         *)
(* included group is expanded at the position of its include entry, and a  *)
(* requirement whose package the target group already holds is dropped.    *)
(***************************************************************************)
HasName(reqs, n) == \E i \in DOMAIN reqs : reqs[i].name = n

\* Requirements appended without regard to the packages already held.
PushAny(acc, r) == Append(acc, r)

PushUnique(acc, r) == IF HasName(acc, r.name) THEN acc ELSE Append(acc, r)

RECURSIVE ExtendUnique(_, _)
ExtendUnique(acc, reqs) ==
    IF reqs = <<>> THEN acc
    ELSE ExtendUnique(PushUnique(acc, Head(reqs)), Tail(reqs))

RECURSIVE Resolve(_, _, _)
RECURSIVE Expand(_, _, _, _, _)
Resolve(groups, name, parents) ==
    IF name \notin DOMAIN groups
    THEN Err(UnknownGroupReference(parents[Len(parents)], name))
    ELSE IF name \in Range(parents)
    THEN Err(CyclicGroupInclusion(name))
    ELSE Expand(groups, name, Append(parents, name), 1, <<>>)

Expand(groups, name, parents, i, acc) ==
    IF i > Len(groups[name]) THEN Ok(acc)
    ELSE LET entry == groups[name][i] IN
         IF entry.kind = "requirement"
         THEN Expand(groups, name, parents, i + 1, PushUnique(acc, entry.req))
         ELSE LET included == Resolve(groups, entry.group, parents) IN
              IF included.tag = "Err" THEN included
              ELSE Expand(groups, name, parents, i + 1, ExtendUnique(acc, included.value))

\* The groups are resolved in key order; the first error is returned.
RECURSIVE FlattenFrom(_, _, _, _)
FlattenFrom(groups, keys, i, resolved) ==
    IF i > Len(keys) THEN Ok(resolved)
    ELSE LET r == Resolve(groups, keys[i], <<>>) IN
         IF r.tag = "Err" THEN r
         ELSE FlattenFrom(groups, keys, i + 1,
                  [g \in DOMAIN resolved \cup {keys[i]} |->
                      IF g = keys[i] THEN r.value ELSE resolved[g]])

from_dependency_groups(groups) ==
    FlattenFrom(groups, SortedKeys(GroupOrder, groups), 1, EmptyMap)

\* Lines 58-69 without the match on the strategy.
project_sources_any_strategy == tool_sources

(***************************************************************************)
(* Lines 58-69: the sources table the call works with.                     *)
(***************************************************************************)
project_sources ==
    IF source_strategy = "Enabled" THEN tool_sources ELSE EmptyMap

\* Lines 94-100 with the dev group inserted in place of an existing one.
add_dev_group_replacing(groups, dev) ==
    IF dev.some
    THEN [g \in DOMAIN groups \cup {DEV_DEPENDENCIES} |->
             IF g = DEV_DEPENDENCIES THEN dev.value ELSE groups[g]]
    ELSE groups

(***************************************************************************)
(* Lines 94-100: add the `dev` group, if `dev-dependencies` is defined.    *)
(***************************************************************************)
add_dev_group(groups, dev) ==
    IF dev.some
    THEN LET existing == IF DEV_DEPENDENCIES \in DOMAIN groups
                         THEN groups[DEV_DEPENDENCIES] ELSE <<>>
         IN [g \in DOMAIN groups \cup {DEV_DEPENDENCIES} |->
                IF g = DEV_DEPENDENCIES THEN existing \o dev.value ELSE groups[g]]
    ELSE groups

(***************************************************************************)
(* Lines 162-192: validate_sources.  The packages are visited in key       *)
(* order, the sources of a package in their order; the first source with a *)
(* group that is missing, or that lacks the package, is the error.         *)
(***************************************************************************)
\* Line 168 with a source that never reports its group.
source_group_none(source) == None

source_group(source) ==
    IF source.scope = "group" THEN Some(source.target) ELSE None

RECURSIVE ValidateLoop(_, _, _, _, _)
ValidateLoop(sources, groups, names, i, j) ==
    IF i > Len(names) THEN Ok(<<>>)
    ELSE IF j > Len(sources[names[i]]) THEN ValidateLoop(sources, groups, names, i + 1, 1)
    ELSE LET name == names[i]
             group == source_group(sources[name][j])
         IN IF ~group.some THEN ValidateLoop(sources, groups, names, i, j + 1)
            ELSE IF group.value \notin DOMAIN groups
            THEN Err(MissingSourceGroup(name, group.value))
            ELSE IF ~HasName(groups[group.value], name)
            THEN Err(IncompleteSourceGroup(name, group.value))
            ELSE ValidateLoop(sources, groups, names, i, j + 1)

\* validate_sources without the check of lines 177-186.
RECURSIVE ValidateLoopGroupOnly(_, _, _, _, _)
ValidateLoopGroupOnly(sources, groups, names, i, j) ==
    IF i > Len(names) THEN Ok(<<>>)
    ELSE IF j > Len(sources[names[i]])
    THEN ValidateLoopGroupOnly(sources, groups, names, i + 1, 1)
    ELSE LET name == names[i]
             group == source_group(sources[name][j])
         IN IF group.some /\ group.value \notin DOMAIN groups
            THEN Err(MissingSourceGroup(name, group.value))
            ELSE ValidateLoopGroupOnly(sources, groups, names, i, j + 1)

validate_sources_group_only(sources, groups) ==
    ValidateLoopGroupOnly(sources, groups, SortedKeys(PackageOrder, sources), 1, 1)

validate_sources(sources, groups) ==
    ValidateLoop(sources, groups, SortedKeys(PackageOrder, sources), 1, 1)

(***************************************************************************)
(* LoweredRequirement::from_requirement (crate uv-distribution, lowering). *)
(* The sources of the requirement's package that are unscoped, or scoped   *)
(* to the extra or to the group the call is made for, are selected; the    *)
(* first selected source becomes the requirement's source, and a           *)
(* requirement with none is a registry requirement.  The call yields its   *)
(* results as a sequence, an Err where the collaborator fails.             *)
(***************************************************************************)
Registry == [scope |-> "registry", target |-> ""]

Selected(sources, name, extra, group) ==
    IF name \notin DOMAIN sources THEN <<>>
    ELSE SelectSeq(sources[name],
             LAMBDA s : \/ s.scope = "unscoped"
                        \/ s.scope = "extra" /\ extra = Some(s.target)
                        \/ s.scope = "group" /\ group = Some(s.target))

from_requirement(requirement, sources, extra, group, errors) ==
    IF <<group.value, requirement.name>> \in errors
    THEN <<Err(<<"LoweringError">>)>>
    ELSE LET selected == Selected(sources, requirement.name, extra, group) IN
         <<Ok([name |-> requirement.name, ver |-> requirement.ver,
               source |-> IF selected = <<>> THEN Registry ELSE selected[1]])>>

\* Requirement::from(requirement): the plain declared form.
RequirementFrom(requirement) ==
    [name |-> requirement.name, ver |-> requirement.ver, source |-> Registry]

Call(requirement, sources, extra, group) ==
    [group |-> group, extra |-> extra, name |-> requirement.name,
     selected |-> Selected(sources, requirement.name, extra, group)]

(***************************************************************************)
(* Lines 112-149: the closure that lowers one group.  With the strategy    *)
(* enabled the requirements are lowered in order, each with the name of    *)
(* its own group and no extra, and the first Err ends the iteration;       *)
(* `out` are the requirements collected and `made` the calls made.         *)
(***************************************************************************)
\* Line 127 with no group passed to from_requirement.
CallGroupNone(name) == None

CallExtra(name) == None
CallGroup(name) == Some(name)

\* Lines 132-143 with the Err items filtered out instead of returned.
RECURSIVE CollectItemsSkippingErrors(_, _, _, _, _)
CollectItemsSkippingErrors(items, k, group, requirement_name, out) ==
    IF k > Len(items) THEN Ok(out)
    ELSE CollectItemsSkippingErrors(items, k + 1, group, requirement_name,
             IF items[k].tag = "Ok" THEN Append(out, items[k].value) ELSE out)

RECURSIVE CollectItems(_, _, _, _, _)
CollectItems(items, k, group, requirement_name, out) ==
    IF k > Len(items) THEN Ok(out)
    ELSE IF items[k].tag = "Ok"
    THEN CollectItems(items, k + 1, group, requirement_name, Append(out, items[k].value))
    ELSE Err(GroupLoweringError(group, requirement_name))

RECURSIVE LowerEnabled(_, _, _, _, _, _, _)
LowerEnabled(name, requirements, i, sources, errors, out, made) ==
    IF i > Len(requirements) THEN [result |-> Ok(out), made |-> made]
    ELSE LET requirement == requirements[i]
             extra == CallExtra(name)
             group == CallGroup(name)
             items == from_requirement(requirement, sources, extra, group, errors)
             made2 == Append(made, Call(requirement, sources, extra, group))
             r == CollectItems(items, 1, group.value, requirement.name, out)
         IN IF r.tag = "Err" THEN [result |-> r, made |-> made2]
            ELSE LowerEnabled(name, requirements, i + 1, sources, errors, r.value, made2)

lower_group(name, requirements, strategy, sources, errors) ==
    IF strategy = "Enabled"
    THEN LowerEnabled(name, requirements, 1, sources, errors, <<>>, <<>>)
    ELSE [result |-> Ok([i \in DOMAIN requirements |-> RequirementFrom(requirements[i])]),
          made |-> <<>>]

(***************************************************************************)
(* from_virtual_project, lines 72-155, one action per stage.  `?` returns  *)
(* the error of the stage at once.                                         *)
(***************************************************************************)
Returned(r) ==
    /\ result' = r
    /\ pc' = "returned"

\* Lines 89-92 with the error of the flattening dropped (no groups instead).
FlattenGroupsLenient ==
    /\ pc = "flatten"
    /\ LET r == from_dependency_groups(dependency_groups_raw) IN
       flattened' = IF r.tag = "Err" THEN EmptyMap ELSE r.value
    /\ pc' = "add_dev"
    /\ UNCHANGED <<inputs, dependency_groups, lowered, calls, result>>

\* Lines 89-92.
FlattenGroups ==
    /\ pc = "flatten"
    /\ LET r == from_dependency_groups(dependency_groups_raw) IN
       IF r.tag = "Err"
       THEN Returned(r) /\ UNCHANGED flattened
       ELSE flattened' = r.value /\ pc' = "add_dev" /\ UNCHANGED result
    /\ UNCHANGED <<inputs, dependency_groups, lowered, calls>>

\* Lines 94-103.
AddDevGroup ==
    /\ pc = "add_dev"
    /\ dependency_groups' = add_dev_group(flattened, dev_dependencies)
    /\ pc' = "validate"
    /\ UNCHANGED <<inputs, flattened, lowered, calls, result>>

\* Lines 105-107 with the result of validate_sources dropped.
ValidateSourcesUnchecked ==
    /\ pc = "validate"
    /\ pc' = "lower"
    /\ UNCHANGED <<inputs, flattened, dependency_groups, lowered, calls, result>>

\* Lines 105-107 with the groups as they were before the dev merge.
ValidateSourcesBeforeMerge ==
    /\ pc = "validate"
    /\ LET r == validate_sources(project_sources, flattened) IN
       IF r.tag = "Err"
       THEN Returned(r)
       ELSE pc' = "lower" /\ UNCHANGED result
    /\ UNCHANGED <<inputs, flattened, dependency_groups, lowered, calls>>

\* Lines 105-107.
ValidateSources ==
    /\ pc = "validate"
    /\ LET r == validate_sources(project_sources, dependency_groups) IN
       IF r.tag = "Err"
       THEN Returned(r)
       ELSE pc' = "lower" /\ UNCHANGED result
    /\ UNCHANGED <<inputs, flattened, dependency_groups, lowered, calls>>

\* The groups into_iter() has not yielded yet, in key order.
Remaining ==
    SelectSeq(SortedKeys(GroupOrder, dependency_groups), LAMBDA g : g \notin DOMAIN lowered)

\* Lines 110-149: the next group of the iteration.
LowerGroup ==
    /\ pc = "lower"
    /\ Remaining # <<>>
    /\ LET name == Remaining[1]
           r == lower_group(name, dependency_groups[name], source_strategy,
                            project_sources, lowering_errors)
       IN /\ calls' = calls \o r.made
          /\ IF r.result.tag = "Err"
             THEN Returned(r.result) /\ UNCHANGED lowered
             ELSE /\ lowered' = [g \in DOMAIN lowered \cup {name} |->
                                    IF g = name THEN r.result.value ELSE lowered[g]]
                  /\ UNCHANGED <<pc, result>>
    /\ UNCHANGED <<inputs, flattened, dependency_groups>>

\* Lines 150-155.
Return ==
    /\ pc = "lower"
    /\ Remaining = <<>>
    /\ Returned(Ok(lowered))
    /\ UNCHANGED <<inputs, flattened, dependency_groups, lowered, calls>>

Next ==
    \/ FlattenGroups
    \/ AddDevGroup
    \/ ValidateSources
    \/ LowerGroup
    \/ Return

(***************************************************************************)
(* The manifests of the model.                                             *)
(***************************************************************************)
SeqsOfLen(S, k) == [1..k -> S]
SeqsUpTo(S, n) == UNION {SeqsOfLen(S, k) : k \in 0..n}

Entries(reqs, targets) ==
    {RequirementEntry(r) : r \in reqs} \cup {IncludeGroup(g) : g \in targets}

Size(len) == IF len < 0 THEN 0 ELSE len

\* dependency-groups: the groups of `declarable`, each absent (length -1) or a
\* sequence of entries, with at most n entries in all.
RawGroupsInit(declarable, reqs, targets, n) ==
    \E lens \in [1..3 -> -1..n] :
        /\ \A i \in 1..3 : GroupOrder[i] \notin declarable => lens[i] = -1
        /\ Size(lens[1]) + Size(lens[2]) + Size(lens[3]) <= n
        /\ \E s1 \in SeqsOfLen(Entries(reqs, targets), Size(lens[1])),
              s2 \in SeqsOfLen(Entries(reqs, targets), Size(lens[2])),
              s3 \in SeqsOfLen(Entries(reqs, targets), Size(lens[3])) :
             dependency_groups_raw =
                 [g \in {GroupOrder[i] : i \in {j \in 1..3 : lens[j] >= 0}} |->
                     <<s1, s2, s3>>[Rank(GroupOrder, g)]]

\* tool.uv.sources: each package absent or with a non-empty sequence of sources,
\* at most n sources in all.
SourcesInit(scopes, n) ==
    \E lens \in [1..2 -> 0..n] :
        /\ lens[1] + lens[2] <= n
        /\ \E s1 \in SeqsOfLen(scopes, lens[1]), s2 \in SeqsOfLen(scopes, lens[2]) :
             tool_sources =
                 [p \in {PackageOrder[i] : i \in {j \in 1..2 : lens[j] > 0}} |->
                     <<s1, s2>>[Rank(PackageOrder, p)]]

DevLists(reqs, n) == {None} \cup {Some(l) : l \in SeqsUpTo(reqs, n)}
ErrorSets(groups, n) == {E \in SUBSET (groups \X PackageNames) : Cardinality(E) <= n}

Start ==
    /\ pc = "flatten"
    /\ flattened = EmptyMap
    /\ dependency_groups = EmptyMap
    /\ lowered = EmptyMap
    /\ calls = <<>>
    /\ result = Pending

Strategies == {"Enabled", "Disabled"}
CtxGroups == {"dev", "docs"}
CtxRequirements == {Req("a", 1), Req("b", 1)}
CtxScopes == {Unscoped, ExtraScope("cli"), GroupScope("dev"), GroupScope("docs")}
CtxDevLists == {None, Some(<<Req("a", 1)>>)}
CtxSourceTables ==
    {EmptyMap, "a" :> <<GroupScope("docs")>>, "b" :> <<GroupScope("dev"), Unscoped>>}

\* Flattening: all the raw group maps, no dev-dependencies, no sources.
InitFlatten ==
    /\ RawGroupsInit(GroupNames, Requirements, GroupNames, MaxEntries)
    /\ dev_dependencies = None
    /\ tool_sources = EmptyMap
    /\ source_strategy \in Strategies
    /\ lowering_errors = {}
    /\ Start

SpecFlatten == InitFlatten /\ [][Next]_vars

\* The dev merge: small raw group maps, all the dev-dependencies lists.
InitMerge ==
    /\ RawGroupsInit(CtxGroups, Requirements, CtxGroups, MaxCtxEntries)
    /\ dev_dependencies \in DevLists(Requirements, MaxDev)
    /\ tool_sources = EmptyMap
    /\ source_strategy \in Strategies
    /\ lowering_errors = {}
    /\ Start

SpecMerge == InitMerge /\ [][Next]_vars

\* Sources: small raw group maps and dev-dependencies, all the sources tables.
InitSources ==
    /\ RawGroupsInit(CtxGroups, CtxRequirements, CtxGroups, MaxCtxEntries)
    /\ dev_dependencies \in CtxDevLists
    /\ SourcesInit(CtxScopes, MaxSources)
    /\ source_strategy \in Strategies
    /\ lowering_errors = {}
    /\ Start

SpecSources == InitSources /\ [][Next]_vars

\* Lowering: small manifests, all the outcomes of the lowering collaborator.
InitLower ==
    /\ RawGroupsInit(CtxGroups, CtxRequirements, CtxGroups, MaxCtxEntries)
    /\ dev_dependencies \in CtxDevLists
    /\ tool_sources \in CtxSourceTables
    /\ source_strategy \in Strategies
    /\ lowering_errors \in ErrorSets(CtxGroups, MaxErrors)
    /\ Start

SpecLower == InitLower /\ [][Next]_vars

(***************************************************************************)
(* What a state says about the stages that have run.                       *)
(***************************************************************************)
ErrorKind == IF result.tag = "Err" THEN result.err[1] ELSE "none"

FlattenFailed == ErrorKind \in {"CyclicGroupInclusion", "UnknownGroupReference"}
ValidationFailed == ErrorKind \in {"MissingSourceGroup", "IncompleteSourceGroup"}
LoweringFailed == ErrorKind = "GroupLoweringError"

\* The dev merge has run.
Merged == pc \in {"validate", "lower"} \/ (pc = "returned" /\ ~FlattenFailed)
\* validate_sources has run.
Validated == pc = "lower" \/ (pc = "returned" /\ ~FlattenFailed)

\* The sources (package, index) of a table that carry a group.
GroupScoped(sources) ==
    {o \in UNION {{<<p, j>> : j \in DOMAIN sources[p]} : p \in DOMAIN sources} :
        sources[o[1]][o[2]].scope = "group"}

TargetOf(sources, o) == sources[o[1]][o[2]].target

GroupMissing(sources, groups, o) == TargetOf(sources, o) \notin DOMAIN groups

PackageMissing(sources, groups, o) ==
    /\ TargetOf(sources, o) \in DOMAIN groups
    /\ \A i \in DOMAIN groups[TargetOf(sources, o)] :
          groups[TargetOf(sources, o)][i].name # o[1]

Invalid(sources, groups, o) ==
    GroupMissing(sources, groups, o) \/ PackageMissing(sources, groups, o)

\* Table order: packages in key order, the sources of a package in their order.
Before(o1, o2) ==
    \/ Rank(PackageOrder, o1[1]) < Rank(PackageOrder, o2[1])
    \/ o1[1] = o2[1] /\ o1[2] < o2[2]

(***************************************************************************)
(* C1.  validate_sources returns Ok exactly when every source with a group *)
(* names a group of the flattened groups that holds a requirement of the   *)
(* source's package.  Otherwise its error is that of the first source, in  *)
(* table order, that does not: MissingSourceGroup(P, g) when g is not a    *)
(* key of the groups, IncompleteSourceGroup(P, g) when g is a key and no   *)
(* requirement of g has name P.                                            *)
(***************************************************************************)
C1_ValidateSources ==
    Validated =>
        /\ ~ValidationFailed <=>
              \A o \in GroupScoped(project_sources) :
                  ~Invalid(project_sources, dependency_groups, o)
        /\ ValidationFailed =>
              \E o \in GroupScoped(project_sources) :
                  /\ Invalid(project_sources, dependency_groups, o)
                  /\ \A o2 \in GroupScoped(project_sources) :
                        Before(o2, o) => ~Invalid(project_sources, dependency_groups, o2)
                  /\ result.err =
                        IF GroupMissing(project_sources, dependency_groups, o)
                        THEN MissingSourceGroup(o[1], TargetOf(project_sources, o))
                        ELSE IncompleteSourceGroup(o[1], TargetOf(project_sources, o))

\* An IncompleteSourceGroup error in a table that also holds a valid source with a group.
C1_Witness ==
    /\ ErrorKind = "IncompleteSourceGroup"
    /\ \E o \in GroupScoped(project_sources) :
          ~Invalid(project_sources, dependency_groups, o)

(***************************************************************************)
(* C2, as claimed.  Whenever from_virtual_project returns a result, with   *)
(* either strategy, every source of tool.uv.sources with a group names a   *)
(* group of the merged groups that holds a requirement of its package.     *)
(***************************************************************************)
C2_AnyStrategy ==
    result.tag = "Ok" =>
        \A o \in GroupScoped(tool_sources) : ~Invalid(tool_sources, dependency_groups, o)

(***************************************************************************)
(* C2, amended.  With the strategy enabled, whenever from_virtual_project  *)
(* returns a result every source of tool.uv.sources with a group names a   *)
(* group of the merged groups that holds a requirement of its package: a   *)
(* manifest with a source that breaks either half never yields a result.   *)
(***************************************************************************)
C2_EnabledSourcesValid ==
    (source_strategy = "Enabled" /\ result.tag = "Ok") =>
        \A o \in GroupScoped(tool_sources) : ~Invalid(tool_sources, dependency_groups, o)

\* A result of the enabled strategy for a manifest that has a source with a group.
C2_Witness ==
    /\ source_strategy = "Enabled"
    /\ result.tag = "Ok"
    /\ GroupScoped(tool_sources) # {}

(***************************************************************************)
(* C3.  The legacy merge is additive.  When dev-dependencies is declared   *)
(* with list L, the dev group after the merge is the flattened dev group   *)
(* (empty when the group was absent; the group is then created) followed   *)
(* by all of L in order: no entry is removed, reordered or dropped, also   *)
(* when package names collide, and every other group is unchanged.  When   *)
(* dev-dependencies is not declared the flattened groups are unchanged.    *)
(***************************************************************************)
FlattenedDev ==
    IF DEV_DEPENDENCIES \in DOMAIN flattened THEN flattened[DEV_DEPENDENCIES] ELSE <<>>

C3_LegacyMergeAdditive ==
    Merged =>
        IF dev_dependencies.some
        THEN LET L == dev_dependencies.value
                 merged == dependency_groups[DEV_DEPENDENCIES]
             IN /\ DOMAIN dependency_groups = DOMAIN flattened \cup {DEV_DEPENDENCIES}
                /\ \A g \in DOMAIN flattened \ {DEV_DEPENDENCIES} :
                      dependency_groups[g] = flattened[g]
                /\ Len(merged) = Len(FlattenedDev) + Len(L)
                /\ \A i \in 1..Len(FlattenedDev) : merged[i] = FlattenedDev[i]
                /\ \A j \in 1..Len(L) : merged[Len(FlattenedDev) + j] = L[j]
        ELSE dependency_groups = flattened

\* A merge into an existing dev group of a list with a package the group holds,
\* beside another group.
C3_Witness ==
    /\ Merged
    /\ dev_dependencies.some
    /\ Len(dev_dependencies.value) = 2
    /\ \E i \in DOMAIN FlattenedDev :
          FlattenedDev[i].name = dev_dependencies.value[2].name
    /\ DOMAIN flattened \ {DEV_DEPENDENCIES} # {}

(***************************************************************************)
(* C4.  With the strategy disabled from_virtual_project does not consult   *)
(* tool.uv.sources and does not fail for source reasons: once the groups   *)
(* have flattened, no from_requirement call is made and the call returns   *)
(* Ok, whatever the sources table holds, and the result is determined by   *)
(* the merged groups alone: each output group holds the requirements of    *)
(* the merged group one for one, in order, in their plain declared form.   *)
(***************************************************************************)
C4_DisabledIgnoresSources ==
    source_strategy = "Disabled" =>
        /\ calls = <<>>
        /\ ~ValidationFailed /\ ~LoweringFailed
        /\ (pc = "returned" /\ ~FlattenFailed) =>
              /\ result.tag = "Ok"
              /\ DOMAIN result.value = DOMAIN dependency_groups
              /\ \A g \in DOMAIN dependency_groups :
                    /\ Len(result.value[g]) = Len(dependency_groups[g])
                    /\ \A i \in DOMAIN dependency_groups[g] :
                          /\ result.value[g][i].name = dependency_groups[g][i].name
                          /\ result.value[g][i].ver = dependency_groups[g][i].ver
                          /\ result.value[g][i].source = Registry

\* A disabled call that returns requirements for a manifest whose sources table
\* has a source scoped to a group that does not exist.
C4_Witness ==
    /\ source_strategy = "Disabled"
    /\ result.tag = "Ok"
    /\ \E g \in DOMAIN result.value : Len(result.value[g]) = 2
    /\ \E o \in GroupScoped(tool_sources) : GroupMissing(tool_sources, dependency_groups, o)

(***************************************************************************)
(* C5.  With the strategy enabled every requirement of every lowered group *)
(* is lowered by one from_requirement call made with the name of its own   *)
(* group and no extra.  In the call for package P in group g, of the       *)
(* sources of P the unscoped ones are all selected, those scoped to a      *)
(* group are selected exactly when that group is g, and those scoped to an *)
(* extra are never selected; no lowered requirement of g carries a source  *)
(* scoped to an extra or to another group.                                 *)
(***************************************************************************)
CallsFor(g) == SelectSeq(calls, LAMBDA c : c.group = Some(g))

SourcesOf(p) == IF p \in DOMAIN tool_sources THEN Range(tool_sources[p]) ELSE {}

C5_ScopedSelection ==
    source_strategy = "Enabled" =>
        /\ \A g \in DOMAIN lowered :
              /\ Len(CallsFor(g)) = Len(dependency_groups[g])
              /\ \A i \in DOMAIN dependency_groups[g] :
                    CallsFor(g)[i].name = dependency_groups[g][i].name
              /\ \A i \in DOMAIN lowered[g] :
                    \/ lowered[g][i].source.scope \in {"registry", "unscoped"}
                    \/ lowered[g][i].source = GroupScope(g)
        /\ \A k \in DOMAIN calls :
              /\ calls[k].extra = None
              /\ calls[k].group.some
              /\ \A s \in SourcesOf(calls[k].name) :
                    s \in Range(calls[k].selected) <=>
                        \/ s.scope = "unscoped"
                        \/ s.scope = "group" /\ s.target = calls[k].group.value

\* A package of two groups with an unscoped source and a source scoped to one of
\* the groups: both are selected in that group, the unscoped one alone in the other.
C5_Witness ==
    /\ result.tag = "Ok"
    /\ \E k1, k2 \in DOMAIN calls :
          /\ calls[k1].name = calls[k2].name
          /\ calls[k1].group # calls[k2].group
          /\ Len(calls[k1].selected) = 2
          /\ calls[k2].selected = <<Unscoped>>

(***************************************************************************)
(* The include graph of the raw groups.                                    *)
(***************************************************************************)
IncludesOf(g) ==
    {dependency_groups_raw[g][i].group :
        i \in {j \in DOMAIN dependency_groups_raw[g] :
                  dependency_groups_raw[g][j].kind = "include-group"}}

Edge(g, h) ==
    /\ g \in DOMAIN dependency_groups_raw
    /\ h \in DOMAIN dependency_groups_raw
    /\ h \in IncludesOf(g)

\* A path of 1..n include edges from g to h.
RECURSIVE Reaches(_, _, _)
Reaches(g, h, n) ==
    \/ Edge(g, h)
    \/ n > 1 /\ \E k \in GroupNames : Edge(g, k) /\ Reaches(k, h, n - 1)

OnCycle(g) == Reaches(g, g, Cardinality(GroupNames))
HasCycle == \E g \in GroupNames : OnCycle(g)
HasMissingTarget ==
    \E g \in DOMAIN dependency_groups_raw :
        IncludesOf(g) \ DOMAIN dependency_groups_raw # {}

(***************************************************************************)
(* C6, as claimed.  For every raw group map whose include edges contain a  *)
(* cycle the call returns CyclicGroupInclusion naming a group on a cycle.  *)
(***************************************************************************)
C6_CycleAlwaysCyclicError ==
    (HasCycle /\ pc = "returned") =>
        /\ ErrorKind = "CyclicGroupInclusion"
        /\ OnCycle(result.err[2])

(***************************************************************************)
(* C6, amended.  For every raw group map whose include edges contain a     *)
(* cycle the flattening fails and from_virtual_project returns no result   *)
(* and runs no later stage.  The error is CyclicGroupInclusion naming a    *)
(* group on a cycle, or, only when the map also includes an undeclared     *)
(* group, UnknownGroupReference.                                           *)
(***************************************************************************)
C6_CycleRejected ==
    HasCycle =>
        /\ pc \in {"flatten", "returned"}
        /\ pc = "returned" =>
              /\ FlattenFailed
              /\ ErrorKind = "CyclicGroupInclusion" => OnCycle(result.err[2])
              /\ ErrorKind = "UnknownGroupReference" => HasMissingTarget

\* A cycle of two groups entered from a third, reported on a group of the cycle.
C6_Witness ==
    /\ ErrorKind = "CyclicGroupInclusion"
    /\ ~OnCycle(GroupOrder[1])
    /\ OnCycle(result.err[2])
    /\ ~Edge(result.err[2], result.err[2])

(***************************************************************************)
(* C7.  For every raw group map without a cycle and without an include of  *)
(* an undeclared group the flattening succeeds, with the same keys, and    *)
(* every flattened group is its raw entries in declaration order, each     *)
(* include entry replaced at its position by the flattened included group, *)
(* keeping of each package the first requirement only.  No include entry   *)
(* remains in any flattened group.                                         *)
(***************************************************************************)
\* The entries of raw group g from position i on, includes replaced.
RECURSIVE InPlace(_, _)
InPlace(g, i) ==
    IF i > Len(dependency_groups_raw[g]) THEN <<>>
    ELSE LET entry == dependency_groups_raw[g][i] IN
         (IF entry.kind = "requirement" THEN <<entry.req>> ELSE flattened[entry.group])
             \o InPlace(g, i + 1)

\* s is the elements of t that are the first of their package, in the order of t.
FirstOfEachPackage(s, t) ==
    \E f \in [DOMAIN s -> DOMAIN t] :
        /\ \A i \in DOMAIN s : s[i] = t[f[i]]
        /\ \A i, j \in DOMAIN s : i < j => f[i] < f[j]
        /\ \A k \in DOMAIN t :
              (\E i \in DOMAIN s : f[i] = k) <=> (\A m \in 1..(k - 1) : t[m].name # t[k].name)

Occurrences ==
    UNION {{<<g, i>> : i \in DOMAIN dependency_groups[g]} : g \in DOMAIN dependency_groups}

NameAt(o) == dependency_groups[o[1]][o[2]].name

FailsAt(o) == <<o[1], NameAt(o)>> \in lowering_errors

Earlier(o1, o2) ==
    \/ Rank(GroupOrder, o1[1]) < Rank(GroupOrder, o2[1])
    \/ o1[1] = o2[1] /\ o1[2] < o2[2]

C8_LoweringAllOrNothing ==
    (source_strategy = "Enabled" /\ pc = "returned" /\ ~FlattenFailed /\ ~ValidationFailed) =>
        IF \A o \in Occurrences : ~FailsAt(o)
        THEN /\ result.tag = "Ok"
             /\ DOMAIN result.value = DOMAIN dependency_groups
        ELSE /\ result.tag = "Err"
             /\ result.value = <<>>
             /\ \E o \in Occurrences :
                   /\ FailsAt(o)
                   /\ \A o2 \in Occurrences : Earlier(o2, o) => ~FailsAt(o2)
                   /\ result.err = GroupLoweringError(o[1], NameAt(o))

\* Failing requirements in two groups, the first group lowered without error
\* up to its second requirement.
C8_Witness ==
    /\ LoweringFailed
    /\ \E o1, o2 \in Occurrences :
          /\ FailsAt(o1) /\ FailsAt(o2)
          /\ o1[1] # o2[1]
          /\ o1[2] = 2
          /\ result.err = GroupLoweringError(o1[1], NameAt(o1))

(***************************************************************************)
(* C9.  The stages run in the order flatten, dev merge, validate, lower,   *)
(* and the first stage that fails decides the error.  A manifest with a    *)
(* cycle or an include of an undeclared group yields the flattening error, *)
(* whatever its sources; with the strategy enabled a manifest with an      *)
(* invalid source with a group yields MissingSourceGroup or                *)
(* IncompleteSourceGroup and no requirement is lowered, whatever lowering  *)
(* would do; no stage runs after a stage that failed.                      *)
(***************************************************************************)
C9_StageOrder ==
    /\ (HasCycle \/ HasMissingTarget) =>
          /\ pc \in {"flatten", "returned"}
          /\ pc = "returned" => FlattenFailed
    /\ FlattenFailed =>
          /\ flattened = EmptyMap /\ dependency_groups = EmptyMap
          /\ lowered = EmptyMap /\ calls = <<>>
    /\ (source_strategy = "Enabled" /\ Validated
          /\ \E o \in GroupScoped(tool_sources) : Invalid(tool_sources, dependency_groups, o)) =>
          /\ pc = "returned"
          /\ ValidationFailed
    /\ ValidationFailed => lowered = EmptyMap /\ calls = <<>>
    /\ pc \in {"flatten", "add_dev", "validate"} => lowered = EmptyMap /\ calls = <<>>
    /\ pc \in {"flatten", "add_dev"} => dependency_groups = EmptyMap

\* A validation error for a manifest with a requirement whose lowering would fail.
C9_Witness ==
    /\ ValidationFailed
    /\ \E o \in Occurrences : FailsAt(o)

(***************************************************************************)
(* C10.  Validation sees the final membership of the groups.  With the     *)
(* strategy enabled a source for package P scoped to group g is never the  *)
(* validation error when P is in g after flattening and the dev merge:     *)
(* when g, or a group g includes directly or transitively, declares P, or  *)
(* when g is the dev group and dev-dependencies declares P, also without a *)
(* declared dev group.  When every source with a group is of that kind the *)
(* validation passes.                                                      *)
(***************************************************************************)
Declares(h, p) ==
    /\ h \in DOMAIN dependency_groups_raw
    /\ \E i \in DOMAIN dependency_groups_raw[h] :
          /\ dependency_groups_raw[h][i].kind = "requirement"
          /\ dependency_groups_raw[h][i].req.name = p

InFinalGroup(p, g) ==
    \/ Declares(g, p)
    \/ \E h \in GroupNames : Reaches(g, h, Cardinality(GroupNames)) /\ Declares(h, p)
    \/ /\ g = DEV_DEPENDENCIES
       /\ dev_dependencies.some
       /\ \E j \in DOMAIN dev_dependencies.value : dev_dependencies.value[j].name = p

C10_ValidationSeesFinalGroups ==
    (source_strategy = "Enabled" /\ Validated) =>
        /\ ValidationFailed => ~InFinalGroup(result.err[2], result.err[3])
        /\ (\A o \in GroupScoped(tool_sources) : InFinalGroup(o[1], TargetOf(tool_sources, o)))
              => ~ValidationFailed

\* A source scoped to the dev group passes for a package that dev-dependencies
\* alone declares, in a manifest without a declared dev group.
C10_Witness ==
    /\ source_strategy = "Enabled"
    /\ pc = "lower"
    /\ DEV_DEPENDENCIES \notin DOMAIN dependency_groups_raw
    /\ \E o \in GroupScoped(tool_sources) : TargetOf(tool_sources, o) = DEV_DEPENDENCIES

====
